---- MODULE Spec2Model ----
(***************************************************************************)
(* skidmarks: four randomness tests on a finite sequence                   *)
(* (wald_wolfowitz, auto_correlation, serial_test, gap_test).              *)
(*                                                                         *)
(* Each test is a pure function of its input.  The state machine holds one *)
(* input sequence and records which function was called on it, the locals  *)
(* of that call (frame) and what the call produced (result): either the    *)
(* returned dictionary (status "ok") or the exception that left the call.  *)
(*                                                                         *)
(* Python floats are modelled by exact rationals [num, den] with den > 0;  *)
(* [num |-> 0, den |-> 0] stands for a value that was never computed or is *)
(* not a number.  Values of the external numeric collaborators that are    *)
(* not rational (square root, normal CDF, chi-square statistic and its     *)
(* p-value) are kept as the unevaluated application: the record of the     *)
(* arguments the code hands over.                                          *)
(***************************************************************************)
EXTENDS Integers, Sequences, FiniteSets, TLC

VARIABLES sequence, call, frame, result

vars == <<sequence, call, frame, result>>

\* ------------------------------------------------------------- bounds
MaxLen == 7
MaxGapLen == 12

\* The symbols of the input sequences: one-character strings, as the
\* doctests pass them ('1000001').  "2" makes a sequence non-binary.
Symbols == {"0", "1", "2"}
Bits == {"0", "1"}
\* item=None, the default of gap_test's keyword argument.
None == "None"

SeqsUpTo(S, n) == UNION {[1..k -> S] : k \in 0..n}

\* ------------------------------------------------------ float arithmetic
Abs(a) == IF a < 0 THEN -a ELSE a

RECURSIVE GCD(_, _)
GCD(a, b) == IF b = 0 THEN a ELSE GCD(b, a % b)

NaN == [num |-> 0, den |-> 0]

\* The rational a/b in lowest terms with a positive denominator; not a number
\* when b is zero, so that arithmetic on a not-a-number gives a not-a-number.
Rat(a, b) ==
    IF b = 0 THEN NaN
    ELSE LET g == GCD(Abs(a), Abs(b))
             s == IF b < 0 THEN -1 ELSE 1
         IN [num |-> (s * a) \div g, den |-> (s * b) \div g]

Float(i) == [num |-> i, den |-> 1]
RAdd(p, q) == Rat(p.num * q.den + q.num * p.den, p.den * q.den)
RSub(p, q) == Rat(p.num * q.den - q.num * p.den, p.den * q.den)
RMul(p, q) == Rat(p.num * q.num, p.den * q.den)
\* p < q; false when either is not a number.
RLess(p, q) == p.num * q.den < q.num * p.den

\* Division of numpy arrays and scalars: a zero divisor gives a not-a-number
\* (or an infinity) and a warning, never an exception.
ArrayDiv(p, q) == Rat(p.num * q.den, p.den * q.num)

\* A mutant of FloatDiv: division by zero goes on with a not-a-number, as
\* numpy's does, instead of raising.
FloatDivNoRaise(p, q) == [ok |-> TRUE, val |-> ArrayDiv(p, q)]

\* Python's float division p / q: raises ZeroDivisionError when q is zero
\* (also a negative zero), whatever p is.
FloatDiv(p, q) ==
    IF q.num = 0 THEN [ok |-> FALSE, val |-> NaN]
    ELSE [ok |-> TRUE, val |-> Rat(p.num * q.den, p.den * q.num)]

\* math.sqrt(v): raises ValueError for v < 0; sqrt(-0.0) is -0.0.  The value
\* is kept as the application.
Sqrt(v) == [ok |-> ~(v.num < 0), val |-> [sqrt_of |-> v]]

\* ------------------------------------------------------ itertools.groupby
\* groupby(s, lambda a: a): the maximal runs of consecutive equal elements,
\* in order, each as <<value, run length>>.
RECURSIVE groupby(_)
groupby(s) ==
    IF Len(s) = 0 THEN <<>>
    ELSE LET front == groupby(SubSeq(s, 1, Len(s) - 1))
             last == s[Len(s)]
         IN IF Len(front) > 0 /\ front[Len(front)][1] = last
            THEN [front EXCEPT ![Len(front)] = <<last, front[Len(front)][2] + 1>>]
            ELSE Append(front, <<last, 1>>)

\* s[1:] and s[:-1]; both empty for a sequence of at most one element.
Rest(s) == IF Len(s) = 0 THEN <<>> ELSE SubSeq(s, 2, Len(s))
ButLast(s) == IF Len(s) = 0 THEN <<>> ELSE SubSeq(s, 1, Len(s) - 1)

RECURSIVE SumSeq(_)
SumSeq(s) == IF Len(s) = 0 THEN 0 ELSE s[Len(s)] + SumSeq(SubSeq(s, 1, Len(s) - 1))

RECURSIVE MaxSeq(_)
MaxSeq(s) ==
    IF Len(s) = 1 THEN s[1]
    ELSE LET m == MaxSeq(SubSeq(s, 1, Len(s) - 1))
         IN IF s[Len(s)] > m THEN s[Len(s)] ELSE m

\* list.count(v)
Count(s, v) == Cardinality({i \in DOMAIN s : s[i] = v})

\* ------------------------------------------------------- wald_wolfowitz
\* A mutant of n_runs: the changes of value are counted, not the runs.
n_runs_changes(s) == Cardinality({i \in 2..Len(s) : s[i] # s[i - 1]})

\* R = n_runs = sum(1 for s in groupby(sequence, lambda a: a))
n_runs(s) == Len(groupby(s))

\* n = float(sum(1 for s in sequence if s == sequence[0])); sequence[0] is
\* read once per element, so never for the empty sequence.
CountFirst(s) == Cardinality({i \in DOMAIN s : s[i] = s[1]})

\* m = float(sum(1 for s in sequence if s != sequence[0]))
CountOther(s) == Cardinality({i \in DOMAIN s : s[i] # s[1]})

\* ER = ((2 * n * m) / (n + m)) + 1
ExpectedRuns(n, m) ==
    LET q == FloatDiv(Float(2 * n * m), Float(n + m))
    IN IF q.ok THEN [ok |-> TRUE, val |-> RAdd(q.val, Float(1))] ELSE q

\* A mutant of ExpectedVariance: the numerator's "- m" is lost.
ExpectedVarianceNoM(n, m) ==
    FloatDiv(Float(2 * n * m * (2 * n * m - n)),
             Float((n + m) * (n + m) * (n + m - 1)))

\* A mutant of ExpectedVariance: the numerator is off by one.
ExpectedVarianceOffByOne(n, m) ==
    FloatDiv(Float(2 * n * m * (2 * n * m - n - m - 1)),
             Float((n + m) * (n + m) * (n + m - 1)))

\* VR = (2 * n * m * (2 * n * m - n - m)) / ((n + m)**2 * (n + m - 1))
ExpectedVariance(n, m) ==
    FloatDiv(Float(2 * n * m * (2 * n * m - n - m)),
             Float((n + m) * (n + m) * (n + m - 1)))

\* O = (ER - 1) * (ER - 2) / (n + m - 1.)
CrossCheck(ER, n, m) ==
    FloatDiv(RMul(RSub(ER, Float(1)), RSub(ER, Float(2))), Float(n + m - 1))

\* The tolerance 0.001 of the assertion.
Tolerance == Rat(1, 1000)

\* assert VR - O < 0.001
VarianceAssertion(VR, O) == RLess(RSub(VR, O), Tolerance)

NoFrame == [fn |-> "none"]
NoResult == [status |-> "none"]
Raise(e) == [status |-> e]

WWFrame(R, n, m, ER, VR, O) ==
    [fn |-> "wald_wolfowitz", R |-> R, n |-> n, m |-> m,
     ER |-> ER, VR |-> VR, O |-> O]

\* The call wald_wolfowitz(s): its locals as far as they were computed and
\* the returned dictionary or the exception.
wald_wolfowitz(s) ==
    LET R == n_runs(s)
        n == CountFirst(s)
        m == CountOther(s)
        er == ExpectedRuns(n, m)
        vr == ExpectedVariance(n, m)
        o == CrossCheck(er.val, n, m)
        sd == Sqrt(vr.val)
        z == FloatDiv(RSub(Float(R), er.val), vr.val)
    IN IF ~er.ok
       THEN [frame |-> WWFrame(R, n, m, NaN, NaN, NaN),
             result |-> Raise("ZeroDivisionError")]
       ELSE IF ~vr.ok
       THEN [frame |-> WWFrame(R, n, m, er.val, NaN, NaN),
             result |-> Raise("ZeroDivisionError")]
       ELSE IF ~o.ok
       THEN [frame |-> WWFrame(R, n, m, er.val, vr.val, NaN),
             result |-> Raise("ZeroDivisionError")]
       ELSE IF ~VarianceAssertion(vr.val, o.val)
       THEN [frame |-> WWFrame(R, n, m, er.val, vr.val, o.val),
             result |-> Raise("AssertionError")]
       ELSE IF ~sd.ok
       THEN [frame |-> WWFrame(R, n, m, er.val, vr.val, o.val),
             result |-> Raise("ValueError")]
       \* Z = (R - ER) / SD, and SD is zero exactly when VR is
       ELSE IF ~z.ok
       THEN [frame |-> WWFrame(R, n, m, er.val, vr.val, o.val),
             result |-> Raise("ZeroDivisionError")]
       ELSE [frame |-> WWFrame(R, n, m, er.val, vr.val, o.val),
             result |-> [status |-> "ok",
                         n_runs |-> R,
                         mean |-> er.val,
                         sd |-> sd.val,
                         z |-> [num |-> RSub(Float(R), er.val), den |-> sd.val],
                         p |-> [zprob_of |-> [num |-> RSub(Float(R), er.val),
                                              den |-> sd.val]]]]

\* ---------------------------------------------------- scipy.stats.chisquare
\* chisquare(f_obs, f_exp): the statistic sum((f_obs - f_exp)**2 / f_exp) and
\* its p-value for len(f_obs) - 1 degrees of freedom.  numpy array
\* arithmetic: no input is rejected and nothing is raised (an empty or
\* one-element f_obs gives a statistic of 0 and a degenerate p-value).  Both
\* values are kept as the application to the arguments.
chisquare(f_obs, f_exp) ==
    [chi |-> [f_obs |-> f_obs, f_exp |-> f_exp],
     p |-> [f_obs |-> f_obs, f_exp |-> f_exp, df |-> Len(f_obs) - 1]]

\* ----------------------------------------------------------- serial_test
\* pairwise = izip(sequence[1:], sequence[:-1])
pairwise(s) == [i \in 1..(Len(s) - 1) |-> <<Rest(s)[i], ButLast(s)[i]>>]

\* The keys of the dictionary d, in the order of their first insertion.
RECURSIVE Keys(_)
Keys(ps) ==
    IF Len(ps) = 0 THEN <<>>
    ELSE LET front == Keys(ButLast(ps))
             last == ps[Len(ps)]
         IN IF \E j \in DOMAIN front : front[j] = last
            THEN front ELSE Append(front, last)

\* for k in pairwise: d[k] += 1;  obs = np.array(list(d.values()))
DigramCounts(ps) == [j \in DOMAIN Keys(ps) |-> Count(ps, Keys(ps)[j])]

\* obs.mean(): not a number for an empty array (a warning, no exception).
ArrayMean(a) == Rat(SumSeq(a), Len(a))

\* The call serial_test(s).  No statement of it raises for any sequence.
serial_test(s) ==
    LET ps == pairwise(s)
        obs == DigramCounts(ps)
        exp == [j \in DOMAIN obs |-> ArrayMean(obs)]
        c == chisquare(obs, exp)
    IN [frame |-> [fn |-> "serial_test", keys |-> Keys(ps), obs |-> obs, exp |-> exp],
        result |-> [status |-> "ok", chi |-> c.chi, p |-> c.p]]

\* -------------------------------------------------------------- gap_test
\* The least number of buckets of the histogram: max(10, ...).
MinBuckets == 10

\* A mutant of ItemPrecondition: a count of zero is let through.
ItemPreconditionWeak(hits, len) == 0 <= hits /\ hits < len

\* assert 0 < sum(seq) < len(sequence)
ItemPrecondition(hits, len) == 0 < hits /\ hits < len

\* seq = [1 if s == item else 0 for s in sequence]
Indicator(s, item) == [i \in DOMAIN s |-> IF s[i] = item THEN 1 ELSE 0]

IsGap(g) == g[1] # 1

\* observed_gaps = [len(list(li)) for g, li in groupby(seq, ...) if g != 1]
observed_gaps(seq) ==
    LET gs == SelectSeq(groupby(seq), IsGap)
    IN [j \in DOMAIN gs |-> gs[j][2]]

\* A mutant of NBuckets: no minimum, one bucket per length up to the longest.
NBucketsNoMinimum(og) == MaxSeq(og) + 1

\* len(range(max(10, max(observed_gaps))))
NBuckets(og) == IF MaxSeq(og) > MinBuckets THEN MaxSeq(og) ELSE MinBuckets

\* ogaps = [observed_gaps.count(i) for i in range(max(10, max(observed_gaps)))]
\* ogaps[j] is the bucket of gap length j - 1.
ogaps(og) == [j \in 1..NBuckets(og) |-> Count(og, j - 1)]

\* egaps = [l * (exp ** ii) for ii in range(1, len(ogaps) + 1)], with
\* l = float(len(sequence)) and exp = float(sum(seq)) / l; each element is
\* kept as its factors.
egaps(l, hits, nbuckets) ==
    [ii \in 1..nbuckets |-> [l |-> l, exp |-> Rat(hits, l), power |-> ii]]

GapFrame(arg, item, seq, og, o, e) ==
    [fn |-> "gap_test", arg |-> arg, item |-> item, seq |-> seq,
     observed_gaps |-> og, ogaps |-> o, egaps |-> e]

\* The call gap_test(s, item0); item0 = None is the call without item.  The
\* frame keeps the argument as passed (arg) beside the item it resolves to.
gap_test(s, item0) ==
    IF item0 = None /\ Len(s) = 0
    THEN [frame |-> GapFrame(item0, item0, <<>>, <<>>, <<>>, <<>>),
          result |-> Raise("IndexError")]
    ELSE
    LET item == IF item0 = None THEN s[1] ELSE item0
        seq == Indicator(s, item)
        og == observed_gaps(seq)
        o == ogaps(og)
        e == egaps(Len(s), SumSeq(seq), Len(o))
        c == chisquare(o, e)
    IN IF ~ItemPrecondition(SumSeq(seq), Len(s))
       THEN [frame |-> GapFrame(item0, item, seq, <<>>, <<>>, <<>>),
             result |-> Raise("AssertionError")]
       \* max() of an empty list
       ELSE IF Len(og) = 0
       THEN [frame |-> GapFrame(item0, item, seq, og, <<>>, <<>>),
             result |-> Raise("ValueError")]
       ELSE [frame |-> GapFrame(item0, item, seq, og, o, e),
             result |-> [status |-> "ok", chi |-> c.chi, p |-> c.p, item |-> item]]

\* ------------------------------------------------------ auto_correlation
\* int(c) for the characters of a string sequence (map(int, sequence)).
int(c) == CASE c = "0" -> 0 [] c = "1" -> 1 [] c = "2" -> 2

\* seq = np.array(map(int, sequence), dtype=np.int)
IntArray(s) == [i \in DOMAIN s |-> int(s[i])]

Products(x, y) == [i \in DOMAIN x |-> x[i] * y[i]]

\* np.cov(x, y, bias=1): the population covariance of two samples of the
\* same, positive length.
Cov(x, y) ==
    RSub(Rat(SumSeq(Products(x, y)), Len(x)),
         RMul(ArrayMean(x), ArrayMean(y)))

\* scipy.stats.linregress(x, y): the least-squares line y = slope * x +
\* intercept, x the independent and y the dependent sample:
\* slope = cov(x, y) / var(x), intercept = mean(y) - slope * mean(x),
\* r = cov(x, y) / sqrt(var(x) * var(y)), or 0 when that denominator is 0.
\* It is defined when x is not empty and not constant.
linregress(x, y) ==
    LET defined == Len(x) > 0 /\ Cov(x, x).num # 0
        slope == ArrayDiv(Cov(x, y), Cov(x, x))
    IN [defined |-> defined,
        slope |-> IF defined THEN slope ELSE NaN,
        intercept |-> IF defined
                      THEN RSub(ArrayMean(y), RMul(slope, ArrayMean(x)))
                      ELSE NaN,
        r_squared |-> IF ~defined THEN NaN
                      ELSE IF Cov(y, y).num = 0 THEN Float(0)
                      ELSE ArrayDiv(RMul(Cov(x, y), Cov(x, y)),
                                    RMul(Cov(x, x), Cov(y, y)))]

\* The call auto_correlation(s): the set of its possible outcomes.  Where the
\* regression is not defined the library either returns not-a-number fields
\* or raises ValueError, depending on its version.  The slope's p-value, the
\* standard error and the correlation coefficient are kept as applications
\* to the two samples.
auto_correlation(s) ==
    LET seq == IntArray(s)
        reg == linregress(Rest(seq), ButLast(seq))
        ok == [frame |-> [fn |-> "auto_correlation", seq |-> seq],
               result |-> [status |-> "ok",
                           slope |-> reg.slope,
                           intercept |-> reg.intercept,
                           r_squared |-> reg.r_squared,
                           p |-> [ttp_of |-> <<Rest(seq), ButLast(seq)>>],
                           see |-> [see_of |-> <<Rest(seq), ButLast(seq)>>],
                           auto_correlation |->
                               [corrcoef_of |-> <<Rest(seq), ButLast(seq)>>]]]
        err == [frame |-> [fn |-> "auto_correlation", seq |-> seq],
                result |-> Raise("ValueError")]
    IN IF reg.defined THEN {ok} ELSE {ok, err}

\* ------------------------------------------------------------ the machine
\* The state before any call, for the inputs of the bounded set S.
InitWith(S) ==
    /\ sequence \in S
    /\ call = "none"
    /\ frame = NoFrame
    /\ result = NoResult

Init == InitWith(SeqsUpTo(Symbols, MaxLen))

WaldWolfowitz ==
    /\ call = "none"
    /\ call' = "wald_wolfowitz"
    /\ frame' = wald_wolfowitz(sequence).frame
    /\ result' = wald_wolfowitz(sequence).result
    /\ UNCHANGED sequence

AutoCorrelation ==
    /\ call = "none"
    /\ call' = "auto_correlation"
    /\ \E out \in auto_correlation(sequence) :
          /\ frame' = out.frame
          /\ result' = out.result
    /\ UNCHANGED sequence

SerialTest ==
    /\ call = "none"
    /\ call' = "serial_test"
    /\ frame' = serial_test(sequence).frame
    /\ result' = serial_test(sequence).result
    /\ UNCHANGED sequence

GapTest ==
    /\ call = "none"
    /\ call' = "gap_test"
    /\ \E item \in Symbols \cup {None} :
          /\ frame' = gap_test(sequence, item).frame
          /\ result' = gap_test(sequence, item).result
    /\ UNCHANGED sequence

Next == WaldWolfowitz \/ AutoCorrelation \/ SerialTest \/ GapTest

Spec == Init /\ [][Next]_vars

\* gap_test alone, on binary sequences long enough to hold gaps of 10 and more.
InitGap == InitWith(SeqsUpTo(Bits, MaxGapLen))

NextGap == GapTest

SpecGap == InitGap /\ [][NextGap]_vars

\* ================================================================ claims
\* The distinct values of a sequence.
Distinct(s) == {s[i] : i \in DOMAIN s}

\* The number of maximal runs of a non-empty sequence, by its definition.
Runs(s) == 1 + Cardinality({i \in 2..Len(s) : s[i] # s[i - 1]})

\* The gaps of s for item: the positions where a maximal run of elements
\* different from item starts.
GapStarts(s, item) ==
    {i \in DOMAIN s : s[i] # item /\ (i = 1 \/ s[i - 1] = item)}

\* The distinct digrams (sequence[i+1], sequence[i]) of a sequence.
Digrams(s) == {<<s[i + 1], s[i]>> : i \in 1..(Len(s) - 1)}

\* Some gap of s for item is 10 or more elements long.
HasGapOfTen(s, item) ==
    \E i \in 1..(Len(s) - 9) : \A j \in 0..9 : s[i + j] # item

WWFields == {"status", "n_runs", "mean", "sd", "z", "p"}

\* C1: for every sequence of length >= 1 whose elements are all equal,
\* wald_wolfowitz fails with an error and returns no result dictionary.
C1_ConstantSequenceFails ==
    (call = "wald_wolfowitz" /\ Len(sequence) >= 1
       /\ Cardinality(Distinct(sequence)) = 1)
    => (result.status \in {"ZeroDivisionError", "AssertionError", "ValueError"}
        /\ DOMAIN result = {"status"})

C1_Witness ==
    /\ call = "wald_wolfowitz"
    /\ Len(sequence) >= 3
    /\ Cardinality(Distinct(sequence)) = 1
    /\ result.status = "ZeroDivisionError"

\* C2 as stated: every sequence of at least 2 elements with exactly two
\* distinct values gets a result with the fields n_runs, mean, sd, z and p,
\* and a division by zero occurs only for a sequence of length 1 or a
\* constant one (n = 0 or m = 0).
C2_Original ==
    call = "wald_wolfowitz" =>
        /\ (Len(sequence) >= 2 /\ Cardinality(Distinct(sequence)) = 2)
              => (result.status = "ok" /\ DOMAIN result = WWFields)
        /\ result.status = "ZeroDivisionError"
              => (Len(sequence) = 1 \/ frame.n = 0 \/ frame.m = 0)

\* C2 as amended: every sequence of at least 3 elements with exactly two
\* distinct values gets a result with the fields n_runs, mean, sd, z and p,
\* and a division by zero occurs only for a sequence of length at most 2 or
\* a constant one (n = 0 or m = 0).
C2_Amended ==
    call = "wald_wolfowitz" =>
        /\ (Len(sequence) >= 3 /\ Cardinality(Distinct(sequence)) = 2)
              => (result.status = "ok" /\ DOMAIN result = WWFields)
        /\ result.status = "ZeroDivisionError"
              => (Len(sequence) <= 2 \/ frame.n = 0 \/ frame.m = 0)

C2_Witness ==
    /\ call = "wald_wolfowitz"
    /\ Len(sequence) = 3
    /\ Cardinality(Distinct(sequence)) = 2
    /\ result.status = "ok"
    /\ DOMAIN result = WWFields

\* C3: whenever wald_wolfowitz returns a result, n_runs is the number of
\* maximal runs: 1 plus the number of positions whose element differs from
\* the one before (3 for '1000001').
C3_NRunsIsNumberOfRuns ==
    (call = "wald_wolfowitz" /\ result.status = "ok")
    => result.n_runs = Runs(sequence)

C3_Witness ==
    /\ call = "wald_wolfowitz"
    /\ sequence = <<"1", "0", "0", "0", "0", "0", "1">>
    /\ result.status = "ok"
    /\ result.n_runs = 3

\* C4: gap_test fails with an error whenever the number of elements equal to
\* the designated item is 0 or the length of the sequence, for an item passed
\* explicitly and for the default item (the first element), where every
\* constant sequence is rejected.
C4_ItemAbsentOrEverywhereFails ==
    call = "gap_test" =>
        /\ (frame.arg # None
              /\ Count(sequence, frame.arg) \in {0, Len(sequence)})
              => (result.status \in {"AssertionError", "ValueError", "IndexError"}
                  /\ DOMAIN result = {"status"})
        /\ (frame.arg = None /\ Cardinality(Distinct(sequence)) <= 1)
              => (result.status \in {"AssertionError", "ValueError", "IndexError"}
                  /\ DOMAIN result = {"status"})

C4_Witness ==
    /\ call = "gap_test"
    /\ frame.arg # None
    /\ Len(sequence) >= 2
    /\ Cardinality(Distinct(sequence)) = 2
    /\ Count(sequence, frame.arg) = 0
    /\ result.status = "AssertionError"

\* C5: for every sequence and item that satisfy the precondition of gap_test,
\* the histogram of observed gaps and the list of expected counts have the
\* same number of buckets, at least 10 whatever the longest gap is, and
\* exactly 10 when the longest gap is shorter than 10.
C5_AtLeastTenBuckets ==
    (call = "gap_test"
       /\ 0 < Count(sequence, frame.item)
       /\ Count(sequence, frame.item) < Len(sequence))
    => /\ result.status = "ok"
       /\ Len(result.chi.f_obs) >= 10
       /\ Len(result.chi.f_exp) = Len(result.chi.f_obs)
       /\ ~HasGapOfTen(sequence, frame.item) => Len(result.chi.f_obs) = 10

C5_Witness ==
    /\ call = "gap_test"
    /\ result.status = "ok"
    /\ MaxSeq(frame.observed_gaps) >= 11
    /\ Len(result.chi.f_obs) >= 11
    /\ Len(result.chi.f_exp) = Len(result.chi.f_obs)

\* C6: in gap_test the histogram has a bucket for every gap length from 0
\* through the longest observed gap, so that every observed gap is counted in
\* exactly one bucket: the counts sum to the number of observed gaps, also
\* when the longest gap is 10 or more.
C6_EveryGapCounted ==
    (call = "gap_test" /\ result.status = "ok")
    => /\ Len(result.chi.f_obs) > MaxSeq(frame.observed_gaps)
       /\ SumSeq(result.chi.f_obs)
             = Cardinality(GapStarts(sequence, frame.item))

\* C7: for every sequence in which fewer than 2 distinct digrams occur,
\* serial_test signals an error or edge case and returns no {chi, p} result.
C7_DegenerateFlagged ==
    (call = "serial_test" /\ Cardinality(Digrams(sequence)) < 2)
    => result.status # "ok"

\* C8: wald_wolfowitz reports an error for every sequence that contains more
\* than two distinct values and never returns a result for one.
C8_NonBinaryRejected ==
    (call = "wald_wolfowitz" /\ Cardinality(Distinct(sequence)) > 2)
    => result.status # "ok"

\* C9: for all counts n >= 1 and m >= 1 the expected variance
\* VR = 2nm(2nm - n - m) / ((n+m)^2 (n+m-1)) and O = (ER-1)(ER-2)/(n+m-1),
\* ER = 2nm/(n+m) + 1, differ by less than 0.001, so the assertion of
\* wald_wolfowitz never fails on a sequence that contains both values.
C9_VarianceCrossCheck ==
    (call = "wald_wolfowitz" /\ frame.n >= 1 /\ frame.m >= 1)
    => /\ frame.VR.den # 0
       /\ frame.O.den # 0
       /\ frame.VR = Rat(2 * frame.n * frame.m
                            * (2 * frame.n * frame.m - frame.n - frame.m),
                         (frame.n + frame.m) * (frame.n + frame.m)
                            * (frame.n + frame.m - 1))
       /\ RLess(RSub(frame.VR, frame.O), Rat(1, 1000))
       /\ RLess(RSub(frame.O, frame.VR), Rat(1, 1000))
       /\ result.status # "AssertionError"

C9_Witness ==
    /\ call = "wald_wolfowitz"
    /\ frame.n >= 2
    /\ frame.m >= 3
    /\ frame.VR.num > 0
    /\ frame.VR = frame.O
    /\ result.status = "ok"

\* C10: auto_correlation fits the regression with sequence[1:] as the
\* dependent sample y and sequence[:-1] as the independent sample x: for
\* every 0/1 sequence on which the regression is defined, slope is
\* cov(sequence[:-1], sequence[1:]) / var(sequence[:-1]) and intercept is
\* mean(sequence[1:]) - slope * mean(sequence[:-1]).
C10_RegressionOfNextOnPrevious ==
    LET x == ButLast(IntArray(sequence))
        y == Rest(IntArray(sequence))
    IN (call = "auto_correlation" /\ result.status = "ok"
          /\ Distinct(sequence) \subseteq Bits
          /\ Len(sequence) >= 2
          /\ Cov(x, x).num # 0 /\ Cov(y, y).num # 0)
       => /\ result.slope = ArrayDiv(Cov(x, y), Cov(x, x))
          /\ result.intercept
                = RSub(ArrayMean(y), RMul(result.slope, ArrayMean(x)))

====
